---- MODULE Spec2Model ----
(***************************************************************************)
(* The command dispatcher of the bot (Core.runCommand) together with the   *)
(* points economy it charges (points/component.js).  One dispatch is an    *)
(* async function: every `await` is a point where other dispatches may     *)
(* run, so a dispatch is a process whose pc names the await it is          *)
(* suspended on.                                                           *)
(***************************************************************************)
EXTENDS Integers, Sequences, FiniteSets, TLC

\* ------------------------------------------------------------------ bounds
MaxDispatches == 2      \* runCommand calls in one behaviour; all may overlap
MaxTime == 2            \* the clock runs from 0 to MaxTime seconds

\* ------------------------------------------------------ JavaScript values
\* what the store's get() answers when no row matches (value|null)
NULL == -1000
\* `undefined` subcommand / missing first argument; like "" it is falsy
NoSub == ""

\* ToNumber() as the relational operators apply it: null becomes 0
ToNumber(v) == IF v = NULL THEN 0 ELSE v

JsGtStrict(a, b) == ToNumber(a) > ToNumber(b)

\* ToBoolean() of a number or null
Truthy(v) == v # NULL /\ v # 0

\* String.prototype.toLowerCase on the argument strings that are sent
ToLowerCase(s) == CASE s = "Add" -> "add"
                    [] s = "POINTS" -> "points"
                    [] OTHER -> s

\* ---------------------------------------------------------- store contents
Users == {"alice", "bob", "singbot"}

\* rows of the `commands` table
CommandRows ==
  { [name |-> "points",  cooldown |-> 2, permission |-> 1, status |-> TRUE,
     price |-> 2, module |-> "points"],
    [name |-> "top",     cooldown |-> 0, permission |-> 2, status |-> TRUE,
     price |-> 1, module |-> "points"],
    [name |-> "discord", cooldown |-> 1, permission |-> 2, status |-> TRUE,
     price |-> 0, module |-> "custom"],
    [name |-> "raffle",  cooldown |-> 0, permission |-> 0, status |-> FALSE,
     price |-> 0, module |-> "raffle"] }

\* rows of the `subcommands` table: `!points add`, `!points take` (disabled),
\* `!top points` (price -1: inherits the price of `top`)
SubcommandRows ==
  { [name |-> "add",    parent |-> "points", cooldown |-> 1, permission |-> 0,
     status |-> TRUE,  price |-> 1, module |-> "points"],
    [name |-> "take",   parent |-> "points", cooldown |-> 1, permission |-> 0,
     status |-> FALSE, price |-> 1, module |-> "points"],
    [name |-> "points", parent |-> "top",    cooldown |-> 0, permission |-> 2,
     status |-> TRUE,  price |-> -1, module |-> "points"] }

CommandRow(cmd) == CHOOSE r \in CommandRows : r.name = cmd
SubcommandRow(cmd, sub) ==
  CHOOSE r \in SubcommandRows : r.name = sub /\ r.parent = cmd

\* users.permission: the group level the chat events of a user carry
GroupOf == [u \in Users |-> IF u = "alice" THEN 1 ELSE 2]

\* balances the users may hold when the bot starts
InitPoints == {[u \in Users |-> IF u = "alice" THEN 3 ELSE 0]}

\* what arrives from the chat: command, first argument, sender
Events ==
  { [command |-> c[1], args |-> c[2], sender |-> "alice"] :
      c \in { <<"points", <<>>>>, <<"points", <<"Add", "bob">>>>,
              <<"points", <<"take">>>>, <<"points", <<"bob", "Add">>>>,
              <<"top", <<"POINTS">>>>, <<"top", <<>>>>,
              <<"discord", <<>>>>, <<"raffle", <<>>>>, <<"nope", <<"Add">>>> } }
  \cup
  { [command |-> "points", args |-> <<>>, sender |-> "bob"] }

\* how the call of a handler at line 181 may end: it returns, it throws, or
\* (an async function) it returns a promise that rejects.  The call is not
\* awaited, so only a throw reaches the catch clause
HandlerResults == {"returns", "throws", "rejects"}

VARIABLES
  now,          \* Date.now(), in seconds
  points,       \* users.points, per user
  cooldowns,    \* the cooldown tracker: <<command, subcommand, user>> -> started at
  pointsOn,     \* extension setting points.enabled
  cooldownsOn,  \* extension setting cooldown.enabled
  run,          \* the dispatches: the locals of each runCommand call
  lastPayout,   \* $.cache 'lastPayout'
  lastUserList, \* $.cache 'lastUserList'
  userList,     \* $.user.list, the names in the channel
  isLive,       \* $.stream.isLive
  settings,     \* pointsPayoutLive/Offline, pointsIntervalLive/Offline
  pay,          \* the payout runs: the locals of each call of run()
  tick,         \* $.tick: the names of the intervals that are set
  engine,       \* what initialize() and disconnect() have done so far
  listeners,    \* Core's emitter: channel -> the listeners, in order
  onCalls,      \* per channel and listener, the `single` of each call of on
  invoked       \* per channel and listener, the calls made by the last emit
                \* since the lists changed

payoutVars == <<lastPayout, lastUserList, userList, isLive, settings, pay, tick>>
coreVars == <<engine, listeners, onCalls, invoked>>

vars == <<now, points, cooldowns, pointsOn, cooldownsOn, run,
          payoutVars, coreVars>>

\* the runCommand calls, in the order they are made
Slots == 1..MaxDispatches

\* ------------------------------------------------------- command registry
\* registry facade of the runtime context ($.command.*)
exists(cmd, sub) ==
  IF sub = NoSub
    THEN \E r \in CommandRows : r.name = cmd
    ELSE \E r \in SubcommandRows : r.name = sub /\ r.parent = cmd

isEnabled(cmd, sub) ==
  IF ~exists(cmd, NoSub) THEN FALSE
  ELSE IF sub # NoSub /\ exists(cmd, sub) THEN SubcommandRow(cmd, sub).status
  ELSE CommandRow(cmd).status

getPermLevel(cmd, sub) ==
  IF ~exists(cmd, NoSub) THEN 0
  ELSE IF sub # NoSub /\ exists(cmd, sub) THEN SubcommandRow(cmd, sub).permission
  ELSE CommandRow(cmd).permission

getCooldown(cmd, sub) ==
  IF sub # NoSub /\ exists(cmd, sub) THEN SubcommandRow(cmd, sub).cooldown
  ELSE CommandRow(cmd).cooldown

isCustom(cmd) == CommandRow(cmd).module = "custom"

\* ------------------------------------------------------- cooldown tracker
CooldownKey(cmd, user, sub) == <<cmd, sub, user>>

\* seconds remaining, or 0 (falsy) when not on cooldown
isOnCooldown(cmd, user, sub) ==
  LET key == CooldownKey(cmd, user, sub) IN
  IF key \notin DOMAIN cooldowns THEN 0
  ELSE LET elapsed == now - cooldowns[key]
           length == getCooldown(cmd, sub)
       IN IF elapsed < length THEN length - elapsed ELSE 0

\* the tracker after startCooldown(cmd, user, sub)
startCooldown(cmd, user, sub) ==
  (CooldownKey(cmd, user, sub) :> now) @@ cooldowns

\* --------------------------------------------------------- points economy
\* $.db.get(table, 'price', { name }) : the price of the row of that name
DbGetPrice(rows, name) ==
  IF \E r \in rows : r.name = name
    THEN (CHOOSE r \in rows : r.name = name).price
    ELSE NULL

getCommandPrice(cmd, sub) ==
  IF sub = NoSub
    THEN DbGetPrice(CommandRows, cmd)
    ELSE LET res == DbGetPrice(SubcommandRows, cmd) IN
         IF res = -1 THEN DbGetPrice(CommandRows, cmd) ELSE res

getUserPoints(user) == points[user]

\* canAffordCommand with >= for >
canAffordCommandGe(user, command, subcommand) ==
  LET price == getCommandPrice(command, subcommand)
      pts == getUserPoints(user)
  IN <<ToNumber(pts) >= ToNumber(price), pts, price>>

canAffordCommand(user, command, subcommand) ==
  LET price == getCommandPrice(command, subcommand)
      pts == getUserPoints(user)
  IN <<JsGtStrict(pts, price), pts, price>>

\* users.points after $.points.sub(user, amount): the store's atomic decr.
\* The amount is a price column value, an integer, which parseInt leaves as
\* it is; sub is only called with a truthy charge, never with null
sub(user, amount) == [points EXCEPT ![user] = @ - amount]

\* -------------------------------------------------------------- dispatcher
\* the locals of a runCommand call that has not been made
Idle ==
  [pc |-> "idle", command |-> "", args |-> <<>>, sender |-> "", groupID |-> 0,
   assigned |-> FALSE, eventSubcommand |-> NoSub, subArgs |-> <<>>,
   subcommand |-> NoSub, pointsEnabled |-> FALSE, cooldownsEnabled |-> FALSE,
   commandPermission |-> 0, userPoints |-> 0, commandPrice |-> 0, charge |-> 0,
   outcome |-> "", handler |-> "", sent |-> <<>>, emitted |-> <<>>,
   moduleLoads |-> 0, consulted |-> 0, cooldownWrites |-> 0, debited |-> 0,
   committedAt |-> 0, checks |-> <<>>]

\* this.whisper(sender, ...) / this.say(sender, ...) with what the text carries
Whisper(r, text, a, b) ==
  [r EXCEPT !.sent = Append(@, [via |-> "whisper", to |-> r.sender,
                                text |-> text, a |-> a, b |-> b])]

Say(r, text) ==
  [r EXCEPT !.sent = Append(@, [via |-> "say", to |-> r.sender,
                                text |-> text, a |-> 0, b |-> 0])]

\* the dispatch has evaluated the check of this stage
Checked(r, stage) == [r EXCEPT !.checks = Append(@, stage)]

\* `return` out of runCommand
Return(r, outcome) == [r EXCEPT !.pc = "done", !.outcome = outcome]

\* EventName that leaves the subcommand out
EventNameNoSub(r) == <<"command", r.command>>

\* `command:<command>` or `command:<command>:<subcommand>`
EventName(r) ==
  IF r.subcommand # NoSub THEN <<"command", r.command, r.subcommand>>
                          ELSE <<"command", r.command>>

\* Array.prototype.slice(1)
Slice1(args) == [i \in 1..(Len(args) - 1) |-> args[i + 1]]

\* what getSubcommand answers when there is no subcommand: [undefined, {}]
NoSubEvent == [subcommand |-> NoSub, subArgs |-> <<>>]

\* getSubcommand that hands all the arguments on as subArgs
getSubcommandNoSlice(event) ==
  LET query == IF event.args = <<>> THEN NoSub ELSE event.args[1]
      cased == IF query # NoSub THEN ToLowerCase(query) ELSE NoSub
  IN IF query = NoSub \/ ~exists(event.command, cased)
       THEN <<NoSub, NoSubEvent>>
       ELSE <<cased, [subcommand |-> cased, subArgs |-> event.args]>>

\* lines 30-45: the first argument, lower-cased, if the registry knows it as
\* a subcommand of the command, and what the event is to gain
getSubcommand(event) ==
  LET query == IF event.args = <<>> THEN NoSub ELSE event.args[1]
      cased == IF query # NoSub THEN ToLowerCase(query) ELSE NoSub
  IN IF query = NoSub \/ ~exists(event.command, cased)
       THEN <<NoSub, NoSubEvent>>
       ELSE <<cased, [subcommand |-> cased, subArgs |-> Slice1(event.args)]>>

\* PermissionStage with >= for >
PermissionStageGe(r0) ==
  LET r == Checked(r0, "permission") IN
  IF r.groupID >= r.commandPermission
    THEN Return(Whisper(r, "permission", 0, 0), "permission")
    ELSE IF r.pointsEnabled THEN [r EXCEPT !.pc = "afford"]
                            ELSE [r EXCEPT !.pc = "exec"]

\* lines 139-167 up to the next await: the permission check, then either the
\* await of canAffordCommand or the await of isCustom
PermissionStage(r0) ==
  LET r == Checked(r0, "permission") IN
  IF r.groupID > r.commandPermission
    THEN Return(Whisper(r, "permission", 0, 0), "permission")
    ELSE IF r.pointsEnabled THEN [r EXCEPT !.pc = "afford"]
                            ELSE [r EXCEPT !.pc = "exec"]

\* PolicyStage with the enablement check left out
PolicyStageNoEnablement(r0) ==
  LET r == Checked(r0, "existence") IN
  IF ~exists(r.command, NoSub) THEN Return(r, "unknown")
  ELSE IF r.cooldownsEnabled THEN [r EXCEPT !.pc = "cooldown"]
  ELSE PermissionStage(r)

\* PolicyStage that looks at the permission before the enablement
PolicyStagePermissionFirst(r0) ==
  LET r == Checked(r0, "existence") IN
  IF ~exists(r.command, NoSub) THEN Return(r, "unknown")
  ELSE IF r.groupID > r.commandPermission
    THEN Return(Whisper(Checked(r, "permission"), "permission", 0, 0), "permission")
  ELSE IF ~isEnabled(r.command, r.subcommand)
    THEN Return(Checked(r, "enablement"), "disabled")
  ELSE IF r.cooldownsEnabled THEN [Checked(r, "enablement") EXCEPT !.pc = "cooldown"]
  ELSE PermissionStage(Checked(r, "enablement"))

\* lines 109-125 once the five policy reads have resolved
PolicyStage(r0) ==
  LET r == Checked(r0, "existence") IN
  IF ~exists(r.command, NoSub) THEN Return(r, "unknown")
  ELSE IF ~isEnabled(r.command, r.subcommand)
    THEN Return(Checked(r, "enablement"), "disabled")
  ELSE IF r.cooldownsEnabled THEN [Checked(r, "enablement") EXCEPT !.pc = "cooldown"]
  ELSE PermissionStage(Checked(r, "enablement"))

\* CooldownStage that sends the notice and forgets to return
CooldownStageNoReturn(r0, cooldownActive) ==
  LET r == Checked(r0, "cooldown") IN
  IF cooldownActive # 0
    THEN PermissionStage(Whisper(r, "cooldown", cooldownActive, 0))
    ELSE PermissionStage(r)

\* lines 126-137 once isOnCooldown has resolved to `cooldownActive`
CooldownStage(r0, cooldownActive) ==
  LET r == Checked(r0, "cooldown") IN
  IF cooldownActive # 0
    THEN Return(Whisper(r, "cooldown", cooldownActive, 0), "cooldown")
    ELSE PermissionStage(r)

\* lines 151-167 once canAffordCommand has resolved to `res`
AffordStage(r, res) ==
  LET r1 == [Checked(r, "affordability") EXCEPT !.userPoints = res[2],
                                                !.commandPrice = res[3]] IN
  IF ~res[1]
    THEN Return(Whisper(r1, "afford", res[3], res[2]), "afford")
    ELSE [r1 EXCEPT !.charge = res[3], !.pc = "exec"]

\* Commit that starts the cooldown without looking at the flag
CommitAlwaysCooldown(d, r) ==
  LET debitIt == r.pointsEnabled /\ Truthy(r.charge)
  IN /\ cooldowns' = startCooldown(r.command, r.sender, r.subcommand)
     /\ points' = IF debitIt THEN sub(r.sender, r.charge) ELSE points
     /\ run' = [run EXCEPT ![d] =
                 Return([r EXCEPT !.emitted = Append(@, EventName(r)),
                                  !.cooldownWrites = @ + 1,
                                  !.debited = IF debitIt THEN @ + r.charge ELSE @,
                                  !.committedAt = now],
                        "ok")]

\* Commit that writes back the balance it read for the affordability check
CommitReadModifyWrite(d, r) ==
  LET startIt == r.cooldownsEnabled
      debitIt == r.pointsEnabled /\ Truthy(r.charge)
  IN /\ cooldowns' = IF startIt
                       THEN startCooldown(r.command, r.sender, r.subcommand)
                       ELSE cooldowns
     /\ points' = IF debitIt
                    THEN [points EXCEPT ![r.sender] = ToNumber(r.userPoints) - r.charge]
                    ELSE points
     /\ run' = [run EXCEPT ![d] =
                 Return([r EXCEPT !.emitted = Append(@, EventName(r)),
                                  !.cooldownWrites = IF startIt THEN @ + 1 ELSE @,
                                  !.debited = IF debitIt THEN @ + r.charge ELSE @,
                                  !.committedAt = now],
                        "ok")]

\* lines 188-192: cooldown start, debit, completion event
Commit(d, r) ==
  LET startIt == r.cooldownsEnabled
      debitIt == r.pointsEnabled /\ Truthy(r.charge)
  IN /\ cooldowns' = IF startIt
                       THEN startCooldown(r.command, r.sender, r.subcommand)
                       ELSE cooldowns
     /\ points' = IF debitIt THEN sub(r.sender, r.charge) ELSE points
     /\ run' = [run EXCEPT ![d] =
                 Return([r EXCEPT !.emitted = Append(@, EventName(r)),
                                  !.cooldownWrites = IF startIt THEN @ + 1 ELSE @,
                                  !.debited = IF debitIt THEN @ + r.charge ELSE @,
                                  !.committedAt = now],
                        "ok")]

\* d is the next call to be made
NextCall(d) ==
  /\ run[d].pc = "idle"
  /\ \A e \in Slots : e < d => run[e].pc # "idle"

\* runCommand(event) is called: lines 90-107.  The subcommand is resolved
\* against the registry, the event gains its fields if there is one, and the
\* five policy reads are issued
RunCommand(d, event) ==
  /\ NextCall(d)
  /\ LET res == getSubcommand(event)
         subcommand == res[1]
         subEvent == res[2]
         r == [Idle EXCEPT !.pc = "policy", !.command = event.command,
                           !.args = event.args, !.sender = event.sender,
                           !.groupID = GroupOf[event.sender],
                           !.subcommand = subcommand]
     IN run' = [run EXCEPT ![d] =
                 IF subcommand # NoSub
                   THEN [r EXCEPT !.assigned = TRUE,
                                  !.eventSubcommand = subEvent.subcommand,
                                  !.subArgs = subEvent.subArgs]
                   ELSE r]
  /\ UNCHANGED <<now, points, cooldowns, pointsOn, cooldownsOn>>
  /\ UNCHANGED <<payoutVars, coreVars>>

\* lines 95-125: Promise.all resolves; existence and enablement checks
PolicyFetch(d) ==
  /\ run[d].pc = "policy"
  /\ LET r == run[d] IN
     run' = [run EXCEPT ![d] =
              PolicyStage([r EXCEPT
                !.pointsEnabled = pointsOn,
                !.cooldownsEnabled = cooldownsOn,
                !.commandPermission = getPermLevel(r.command, r.subcommand)])]
  /\ UNCHANGED <<now, points, cooldowns, pointsOn, cooldownsOn>>
  /\ UNCHANGED <<payoutVars, coreVars>>

\* lines 126-146: isOnCooldown resolves
CooldownCheck(d) ==
  /\ run[d].pc = "cooldown"
  /\ LET r == run[d] IN
     run' = [run EXCEPT ![d] =
              CooldownStage([r EXCEPT !.consulted = @ + 1],
                            isOnCooldown(r.command, r.sender, r.subcommand))]
  /\ UNCHANGED <<now, points, cooldowns, pointsOn, cooldownsOn>>
  /\ UNCHANGED <<payoutVars, coreVars>>

\* AffordCheck that charges the price before it looks at the answer
AffordCheckCharging(d) ==
  /\ run[d].pc = "afford"
  /\ LET r == run[d]
         res == canAffordCommand(r.sender, r.command, r.subcommand)
     IN /\ run' = [run EXCEPT ![d] = AffordStage(r, res)]
        /\ points' = sub(r.sender, ToNumber(res[3]))
  /\ UNCHANGED <<now, cooldowns, pointsOn, cooldownsOn>>
  /\ UNCHANGED <<payoutVars, coreVars>>

\* lines 151-173: canAffordCommand resolves
AffordCheck(d) ==
  /\ run[d].pc = "afford"
  /\ LET r == run[d] IN
     run' = [run EXCEPT ![d] =
              AffordStage(r, canAffordCommand(r.sender, r.command, r.subcommand))]
  /\ UNCHANGED <<now, points, cooldowns, pointsOn, cooldownsOn>>
  /\ UNCHANGED <<payoutVars, coreVars>>

\* lines 173-174: isCustom resolved to true; the stored response is fetched
\* and rendered (awaits of db.get and this.params)
ExecuteCustom(d) ==
  /\ run[d].pc = "exec"
  /\ isCustom(run[d].command)
  /\ run' = [run EXCEPT ![d] = [Checked(run[d], "execution") EXCEPT !.pc = "render"]]
  /\ UNCHANGED <<now, points, cooldowns, pointsOn, cooldownsOn>>
  /\ UNCHANGED <<payoutVars, coreVars>>

\* lines 178, 188-192: the rendered response is said, then the commit
RespondCustom(d) ==
  /\ run[d].pc = "render"
  /\ Commit(d, Say(run[d], "response"))
  /\ UNCHANGED <<now, pointsOn, cooldownsOn>>
  /\ UNCHANGED <<payoutVars, coreVars>>

\* ExecuteHandler that does not look at isCustom
ExecuteHandlerAnyCommand(d, result) ==
  /\ run[d].pc = "exec"
  /\ LET r == [Checked(run[d], "execution") EXCEPT !.handler = result,
                                                 !.moduleLoads = @ + 1] IN
     IF result = "throws"
       THEN /\ run' = [run EXCEPT ![d] = Return(r, "error")]
            /\ UNCHANGED <<points, cooldowns>>
       ELSE Commit(d, r)
  /\ UNCHANGED <<now, pointsOn, cooldownsOn>>
  /\ UNCHANGED <<payoutVars, coreVars>>

\* lines 179-192: isCustom resolved to false; the handler is looked up and
\* called inside try/catch, not awaited
ExecuteHandler(d, result) ==
  /\ run[d].pc = "exec"
  /\ ~isCustom(run[d].command)
  /\ LET r == [Checked(run[d], "execution") EXCEPT !.handler = result,
                                                 !.moduleLoads = @ + 1] IN
     IF result = "throws"
       THEN /\ run' = [run EXCEPT ![d] = Return(r, "error")]
            /\ UNCHANGED <<points, cooldowns>>
       ELSE Commit(d, r)
  /\ UNCHANGED <<now, pointsOn, cooldownsOn>>
  /\ UNCHANGED <<payoutVars, coreVars>>

\* time passes
Tick ==
  /\ now < MaxTime
  /\ now' = now + 1
  /\ UNCHANGED <<points, cooldowns, pointsOn, cooldownsOn, run>>
  /\ UNCHANGED <<payoutVars, coreVars>>

Init ==
  /\ now = 0
  /\ points \in InitPoints
  /\ cooldowns = <<>>
  /\ pointsOn \in BOOLEAN
  /\ cooldownsOn \in BOOLEAN
  /\ run = [d \in Slots |-> Idle]
  /\ lastPayout = 0
  /\ lastUserList = {}
  /\ userList = {}
  /\ isLive = FALSE
  /\ settings = [liveAmt |-> 6, liveInt |-> 5, offAmt |-> -1, offInt |-> -1]
  /\ pay = <<>>
  /\ tick = {}
  /\ engine = [state |-> "on"]
  /\ listeners = <<>>
  /\ onCalls = <<>>
  /\ invoked = <<>>

Next ==
  \/ \E d \in Slots, event \in Events : RunCommand(d, event)
  \/ \E d \in Slots : PolicyFetch(d)
  \/ \E d \in Slots : CooldownCheck(d)
  \/ \E d \in Slots : AffordCheck(d)
  \/ \E d \in Slots : ExecuteCustom(d)
  \/ \E d \in Slots : RespondCustom(d)
  \/ \E d \in Slots, result \in HandlerResults : ExecuteHandler(d, result)
  \/ Tick

Spec == Init /\ [][Next]_vars

\* ---------------------------------------------------------------- emitter
MaxOn == 3              \* calls of Core.on in one behaviour

\* the channels that are listened on, and the listener functions
Channels == {"ready", "command:points"}
Fns == {"f", "g"}

NoListeners == [c \in Channels |-> <<>>]
NoCalls == [c \in Channels |-> [fn \in Fns |-> <<>>]]
NoneInvoked == [c \in Channels |-> [fn \in Fns |-> 0]]

\* how many times fn is in the list
Copies(list, fn) == Cardinality({i \in DOMAIN list : list[i] = fn})

\* the list without its element at position i
RemoveAt(list, i) == [j \in 1..(Len(list) - 1) |-> IF j < i THEN list[j] ELSE list[j + 1]]

\* EventEmitter#off: the first listener that is fn is removed from the channel
off(ls, channel, fn) ==
  IF Copies(ls[channel], fn) = 0 THEN ls
  ELSE [ls EXCEPT ![channel] =
          RemoveAt(@, CHOOSE i \in DOMAIN @ :
                        @[i] = fn /\ \A j \in 1..(i - 1) : @[j] # fn)]

\* EventEmitter#on: fn is added at the end of the channel's list
superOn(ls, channel, fn) == [ls EXCEPT ![channel] = Append(@, fn)]

\* on that adds without removing first
onWithoutOff(channel, fn, single) == superOn(listeners, channel, fn)

\* lines 85-88: Core.on
on(channel, fn, single) ==
  superOn(IF single THEN off(listeners, channel, fn) ELSE listeners, channel, fn)

\* all calls of on so far
RECURSIVE SumLen(_, _)
SumLen(calls, pairs) ==
  IF pairs = {} THEN 0
  ELSE LET p == CHOOSE q \in pairs : TRUE
       IN Len(calls[p[1]][p[2]]) + SumLen(calls, pairs \ {p})

\* somebody calls $.on(channel, fn) or $.on(channel, fn, false)
On(channel, fn, single) ==
  /\ SumLen(onCalls, Channels \X Fns) < MaxOn
  /\ listeners' = on(channel, fn, single)
  /\ onCalls' = [onCalls EXCEPT ![channel][fn] = Append(@, single)]
  /\ invoked' = NoneInvoked
  /\ UNCHANGED <<now, points, cooldowns, pointsOn, cooldownsOn, run,
                 payoutVars, engine>>

\* EventEmitter#emit: every listener in the channel's list is called
Emit(channel) ==
  /\ invoked' = [NoneInvoked EXCEPT ![channel] =
                   [fn \in Fns |-> Copies(listeners[channel], fn)]]
  /\ UNCHANGED <<now, points, cooldowns, pointsOn, cooldownsOn, run,
                 payoutVars, engine, listeners, onCalls>>

\* ----------------------------------------------------------------- engine
MaxCalls == 3           \* calls of initialize() and disconnect() in one behaviour

\* nothing has been initialised; the counters count what has been called
EngineOff ==
  [state |-> "off", configured |-> TRUE, calls |-> 0, starting |-> 0,
   connects |-> 0, cores |-> 0, registrations |-> 0, setups |-> 0,
   ready |-> 0, loaded |-> 0, disconnects |-> 0, unregisters |-> 0,
   unloaded |-> 0]

\* initialize() has run once: the setup of the points extension has been
\* called by registerAll and sleeps
EngineReady ==
  [EngineOff EXCEPT !.state = "on", !.calls = 1, !.connects = 1, !.cores = 1,
                    !.registrations = 1, !.setups = 1, !.ready = 1, !.loaded = 1]

\* lines 196-207: initialize() up to its first await
Initialize ==
  /\ engine.calls < MaxCalls
  /\ engine' =
       IF ~engine.configured
         THEN [engine EXCEPT !.calls = @ + 1]
         ELSE [engine EXCEPT !.calls = @ + 1, !.state = "starting",
                             !.cores = @ + 1, !.connects = @ + 1,
                             !.starting = @ + 1]
  /\ UNCHANGED <<now, points, cooldowns, pointsOn, cooldownsOn, run,
                 payoutVars, listeners, onCalls, invoked>>

\* lines 207-220: the tables and helpers are loaded; registerAll calls the
\* setup of every extension, then the ready and loaded events
InitializeReady ==
  /\ engine.starting > 0
  /\ engine' = [engine EXCEPT !.starting = @ - 1, !.state = "on",
                              !.registrations = @ + 1, !.setups = @ + 1,
                              !.ready = @ + 1, !.loaded = @ + 1]
  /\ UNCHANGED <<now, points, cooldowns, pointsOn, cooldownsOn, run,
                 payoutVars, listeners, onCalls, invoked>>

\* lines 223-229: disconnect()
Disconnect ==
  /\ engine.calls < MaxCalls
  /\ engine' = [engine EXCEPT !.calls = @ + 1, !.state = "off",
                              !.disconnects = @ + 1, !.unregisters = @ + 1,
                              !.unloaded = @ + 1]
  /\ UNCHANGED <<now, points, cooldowns, pointsOn, cooldownsOn, run,
                 payoutVars, listeners, onCalls, invoked>>

\* a new Core with no listener
InitEmitter ==
  /\ now = 0
  /\ points \in InitPoints
  /\ cooldowns = <<>>
  /\ pointsOn = TRUE
  /\ cooldownsOn = TRUE
  /\ run = [d \in Slots |-> Idle]
  /\ lastPayout = 0
  /\ lastUserList = {}
  /\ userList = {}
  /\ isLive = FALSE
  /\ settings = [liveAmt |-> 6, liveInt |-> 5, offAmt |-> -1, offInt |-> -1]
  /\ pay = <<>>
  /\ tick = {}
  /\ engine = EngineOff
  /\ listeners = NoListeners
  /\ onCalls = NoCalls
  /\ invoked = NoneInvoked

NextEmitter ==
  \/ \E channel \in Channels, fn \in Fns, single \in BOOLEAN : On(channel, fn, single)
  \/ \E channel \in Channels : Emit(channel)

SpecEmitter == InitEmitter /\ [][NextEmitter]_vars

\* ------------------------------------------------------------ payout job
MaxRuns == 2            \* calls of run() in one behaviour; all may overlap

PaySlots == 1..MaxRuns

\* $.channel.botName
BotName == "singbot"

\* the names that may be in the channel; carol has no row in users
Viewers == Users \cup {"carol"}

\* users.rank (integer, default 1)
RankOf == [u \in Users |-> IF u = "alice" THEN 2 ELSE 1]

\* the ranks and groups tables: rank 1 has no bonus row
RankRows == { [name |-> 2, bonus |-> 2] }
GroupRows == { [level |-> 1, bonus |-> 1], [level |-> 2, bonus |-> 3] }

\* $.db.get('ranks' | 'groups', 'bonus', where)
DbGetRankBonus(rank) ==
  IF \E row \in RankRows : row.name = rank
    THEN (CHOOSE row \in RankRows : row.name = rank).bonus
    ELSE NULL

DbGetGroupBonus(level) ==
  IF \E row \in GroupRows : row.level = level
    THEN (CHOOSE row \in GroupRows : row.level = level).bonus
    ELSE NULL

\* the settings the job reads; minutes and points.  The first is what the
\* getters default to but for the interval, the others are what
\* setPayoutAmount / setPayoutInterval may have stored
SettingsChoices ==
  { [liveAmt |-> 6, liveInt |-> 1, offAmt |-> -1, offInt |-> -1],
    [liveAmt |-> 0, liveInt |-> 1, offAmt |-> 1, offInt |-> 2],
    [liveAmt |-> 1, liveInt |-> -1, offAmt |-> 0, offInt |-> 1] }

getPayoutAmount(offline) == IF ~offline THEN settings.liveAmt ELSE settings.offAmt

getPayoutInterval(offline) == IF ~offline THEN settings.liveInt ELSE settings.offInt

\* lines 154-157: a stored number, or 0
getRankBonus(rank) ==
  LET storedRankBonus == DbGetRankBonus(rank) IN
  IF storedRankBonus # NULL THEN storedRankBonus ELSE 0

\* what evaluating an identifier that was never declared throws
ReferenceError == -2000

\* lines 163-173: the value read into storedGroupBonus is never returned;
\* line 172 names _storedGroupBonus, which is declared nowhere
getGroupBonus(group) ==
  IF group = NULL THEN 0 ELSE ReferenceError

\* $.db.incr('users', 'points', amount, { name: user }): one atomic update
incr(user, amount) == [points EXCEPT ![user] = @ + amount]

PayIdle ==
  [pc |-> "idle", by |-> "", now |-> 0, lastPayout |-> 0, live |-> FALSE,
   payout |-> 0, userList |-> {}, lastUserList |-> {}, todo |-> {},
   credited |-> [u \in Users |-> 0], rejected |-> FALSE,
   storeFailed |-> FALSE, wrote |-> FALSE, engineState |-> ""]

\* the first free slot takes the next call of run()
NextRun(k) == pay[k].pc = "idle" /\ \A j \in PaySlots : j < k => pay[j].pc # "idle"

\* lines 69-73: run() up to its first await
RunCall(k, by) ==
  [pay EXCEPT ![k] = [PayIdle EXCEPT !.pc = "settings", !.by = by,
                                     !.now = now, !.lastPayout = lastPayout,
                                     !.engineState = engine.state]]

\* lines 204-206: the setup of the extension wakes up, calls run() once and
\* sets the interval
SetupRun(k) ==
  /\ engine.setups > 0
  /\ NextRun(k)
  /\ engine' = [engine EXCEPT !.setups = @ - 1]
  /\ pay' = RunCall(k, "setup")
  /\ tick' = tick \cup {"pointPayouts"}
  /\ UNCHANGED <<now, points, cooldowns, pointsOn, cooldownsOn, run,
                 lastPayout, lastUserList, userList, isLive, settings,
                 listeners, onCalls, invoked>>

\* line 206: a minute later, or a little more than a minute later, the
\* 'pointPayouts' interval calls run() again
TimerRun(k, late) ==
  /\ "pointPayouts" \in tick
  /\ NextRun(k)
  /\ now' = now + 60 + late
  /\ pay' = [RunCall(k, "timer") EXCEPT ![k].now = now']
  /\ UNCHANGED <<points, cooldowns, pointsOn, cooldownsOn, run,
                 lastPayout, lastUserList, userList, isLive, settings, tick,
                 coreVars>>

\* lines 101-102 of one mapper: what it does before its first await
Awaits(user, lastList) == user # BotName /\ user \in lastList

\* lines 73-103: the settings have resolved; is a payout due, and to whom.
\* With the stream live and no positive amount and interval the code goes
\* on with payout = 0; the offline branch returns
RunDue(k) ==
  /\ pay[k].pc = "settings"
  /\ LET r == pay[k]
         liveInt == getPayoutInterval(FALSE)
         offInt == getPayoutInterval(TRUE)
         liveAmt == getPayoutAmount(FALSE)
         offAmt == getPayoutAmount(TRUE)
         nextLivePayout == r.lastPayout + (liveInt * 60)
         nextOfflinePayout == r.lastPayout + (offInt * 60)
         Skip == [r EXCEPT !.pc = "done", !.live = isLive]
         Map(payout) ==
           [r EXCEPT !.pc = "paying", !.live = isLive, !.payout = payout,
                     !.userList = userList, !.lastUserList = lastUserList,
                     !.todo = {u \in userList : Awaits(u, lastUserList)}]
     IN pay' = [pay EXCEPT ![k] =
          IF isLive
            THEN IF liveAmt > 0 /\ liveInt > 0
                   THEN IF nextLivePayout >= r.now THEN Skip ELSE Map(liveAmt)
                   ELSE Map(0)
            ELSE IF offAmt > 0 /\ offInt > 0
                   THEN IF nextOfflinePayout >= r.now THEN Skip ELSE Map(offAmt)
                   ELSE Skip]
  /\ UNCHANGED <<now, points, cooldowns, pointsOn, cooldownsOn, run,
                 lastPayout, lastUserList, userList, isLive, settings, tick,
                 coreVars>>

\* the promise of run() rejects: lines 112-113 will not be reached.  The
\* other mappers are not cancelled
Reject(k, user) ==
  [pay EXCEPT ![k].todo = @ \ {user}, ![k].rejected = TRUE]

\* lines 104-109 of one mapper: the row, the bonus, the credit
PayUser(k, user) ==
  /\ pay[k].pc = "paying"
  /\ user \in pay[k].todo
  /\ IF user \notin Users
       THEN /\ pay' = [pay EXCEPT ![k].todo = @ \ {user}]
            /\ UNCHANGED points
       ELSE LET rankBonus == getRankBonus(RankOf[user])
                bonus == IF Truthy(rankBonus)
                           THEN rankBonus
                           ELSE getGroupBonus(GroupOf[user])
            IN IF bonus = ReferenceError
                 THEN /\ pay' = Reject(k, user)
                      /\ UNCHANGED points
                 ELSE /\ points' = incr(user, pay[k].payout + bonus)
                      /\ pay' = [pay EXCEPT ![k].todo = @ \ {user},
                                   ![k].credited[user] = @ + pay[k].payout + bonus]
  /\ UNCHANGED <<now, cooldowns, pointsOn, cooldownsOn, run,
                 lastPayout, lastUserList, userList, isLive, settings, tick,
                 coreVars>>

\* lines 104-109: a store operation of one mapper fails
PayUserFails(k, user) ==
  /\ pay[k].pc = "paying"
  /\ user \in pay[k].todo
  /\ pay' = [Reject(k, user) EXCEPT ![k].storeFailed = TRUE]
  /\ UNCHANGED <<now, points, cooldowns, pointsOn, cooldownsOn, run,
                 lastPayout, lastUserList, userList, isLive, settings, tick,
                 coreVars>>

\* RunEnd that records the cycle although a mapper failed
RunEndAlways(k) ==
  /\ pay[k].pc = "paying"
  /\ pay[k].todo = {}
  /\ lastUserList' = pay[k].userList
  /\ lastPayout' = pay[k].now
  /\ pay' = [pay EXCEPT ![k].pc = "done", ![k].wrote = TRUE]
  /\ UNCHANGED <<now, points, cooldowns, pointsOn, cooldownsOn, run,
                 userList, isLive, settings, tick, coreVars>>

\* lines 100-113: Promise.map settles; if it resolved the cycle is recorded
RunEnd(k) ==
  /\ pay[k].pc = "paying"
  /\ pay[k].todo = {}
  /\ IF pay[k].rejected
       THEN /\ pay' = [pay EXCEPT ![k].pc = "failed"]
            /\ UNCHANGED <<lastUserList, lastPayout>>
       ELSE /\ lastUserList' = pay[k].userList
            /\ lastPayout' = pay[k].now
            /\ pay' = [pay EXCEPT ![k].pc = "done", ![k].wrote = TRUE]
  /\ UNCHANGED <<now, points, cooldowns, pointsOn, cooldownsOn, run,
                 userList, isLive, settings, tick, coreVars>>

\* somebody joins or leaves the channel
Join(user) ==
  /\ user \notin userList
  /\ userList' = userList \cup {user}
  /\ UNCHANGED <<now, points, cooldowns, pointsOn, cooldownsOn, run,
                 lastPayout, lastUserList, isLive, settings, pay, tick,
                 coreVars>>

Part(user) ==
  /\ user \in userList
  /\ userList' = userList \ {user}
  /\ UNCHANGED <<now, points, cooldowns, pointsOn, cooldownsOn, run,
                 lastPayout, lastUserList, isLive, settings, pay, tick,
                 coreVars>>

\* initialize() has run, in a fresh process or after an earlier payout
\* cycle of this process; Date.now() is far beyond any interval
InitPayout ==
  /\ now = 10 * 60
  /\ points \in InitPoints
  /\ cooldowns = <<>>
  /\ pointsOn = TRUE
  /\ cooldownsOn = TRUE
  /\ run = [d \in Slots |-> Idle]
  /\ \/ lastPayout = 0 /\ lastUserList = {}
     \/ lastPayout = 5 * 60 /\ lastUserList = {"alice", "carol", BotName}
  /\ userList \in {{"alice", "bob", BotName}, {"alice", "carol", BotName}}
  /\ isLive \in BOOLEAN
  /\ settings \in SettingsChoices
  /\ pay = [k \in PaySlots |-> PayIdle]
  /\ tick = {}
  /\ engine = EngineReady
  /\ listeners = NoListeners
  /\ onCalls = NoCalls
  /\ invoked = NoneInvoked

NextPayout ==
  \/ \E k \in PaySlots : SetupRun(k)
  \/ \E k \in PaySlots, late \in {0, 1} : TimerRun(k, late)
  \/ \E k \in PaySlots : RunDue(k)
  \/ \E k \in PaySlots, user \in Viewers : PayUser(k, user)
  \/ \E k \in PaySlots, user \in Viewers : PayUserFails(k, user)
  \/ \E k \in PaySlots : RunEnd(k)
  \/ \E user \in {"bob"} : Join(user)
  \/ \E user \in {"bob"} : Part(user)

SpecPayout == InitPayout /\ [][NextPayout]_vars

\* ------------------------------------------------------------ properties
Rejections == {"unknown", "disabled", "cooldown", "permission", "afford"}

\* the dispatch d did nothing that anybody can observe
Silent(r) ==
  /\ r.sent = <<>> /\ r.emitted = <<>>
  /\ r.handler = "" /\ r.moduleLoads = 0
  /\ r.debited = 0 /\ r.cooldownWrites = 0

\* d returns in this step, with one of the outcomes
ReturnsWith(d, outcomes) ==
  /\ run[d].pc # "done"
  /\ run'[d].pc = "done"
  /\ run'[d].outcome \in outcomes

\* C1: a dispatch of an unregistered command, or of a registered command
\* whose resolved (sub)command is disabled, is a silent abort: it returns at
\* the existence or enablement check having sent nothing, called no handler,
\* emitted nothing, and the step that ends it changes no balance and no
\* cooldown record.
C1_SilentAbort ==
  /\ [](\A d \in Slots :
          LET r == run[d] IN
          (r.pc \notin {"idle", "policy"}
             /\ (~exists(r.command, NoSub) \/ ~isEnabled(r.command, r.subcommand)))
          => /\ r.pc = "done"
             /\ r.outcome = IF exists(r.command, NoSub) THEN "disabled" ELSE "unknown"
             /\ r.consulted = 0
             /\ Silent(r))
  /\ [][\A d \in Slots :
          ReturnsWith(d, {"unknown", "disabled"})
          => points' = points /\ cooldowns' = cooldowns]_vars

C1_Witness ==
  \E d, e \in Slots :
    /\ run[d].outcome = "unknown"
    /\ run[e].outcome = "disabled" /\ run[e].subcommand = "take"

C3_HandlerFailureEndsDispatch ==
  \A d \in Slots :
    run[d].handler \in {"throws", "rejects"}
    => /\ run[d].pc = "done" /\ run[d].outcome = "error"
       /\ run[d].cooldownWrites = 0
       /\ run[d].debited = 0
       /\ run[d].emitted = <<>>

\* d and e are dispatches of the same (command, subcommand) by the same user
SameUse(d, e) ==
  /\ run[d].command = run[e].command
  /\ run[d].subcommand = run[e].subcommand
  /\ run[d].sender = run[e].sender

\* C4: with cooldowns enabled, once a dispatch of (C, S) by U has completed,
\* a dispatch of the same (C, S) by U whose cooldown check comes before
\* cooldownSeconds have elapsed returns at that check: no handler is called,
\* nothing is debited, the balances stay as they are, and U is whispered
\* the number of seconds that remain.
C4_CooldownRejects ==
  [][\A d, e \in Slots :
       LET length == getCooldown(run[d].command, run[d].subcommand) IN
       (/\ d # e
        /\ run[d].pc = "done" /\ run[d].outcome = "ok"
        /\ run[d].cooldownsEnabled
        /\ SameUse(d, e)
        /\ run[e].pc = "cooldown" /\ run'[e].pc # "cooldown"
        /\ now - run[d].committedAt < length)
       => /\ run'[e].pc = "done" /\ run'[e].outcome = "cooldown"
          /\ run'[e].handler = "" /\ run'[e].moduleLoads = 0
          /\ run'[e].debited = 0 /\ run'[e].emitted = <<>>
          /\ points' = points
          /\ Len(run'[e].sent) = 1
          /\ run'[e].sent[1].via = "whisper"
          /\ run'[e].sent[1].to = run[e].sender
          /\ run'[e].sent[1].text = "cooldown"
          /\ run'[e].sent[1].a \in 1..length
          /\ run'[e].sent[1].a >= length - (now - run[d].committedAt)]_vars

C4_Witness ==
  \E d, e \in Slots :
    /\ d # e /\ SameUse(d, e) /\ run[d].command = "points"
    /\ run[d].outcome = "ok" /\ run[d].debited = 2
    /\ run[e].outcome = "cooldown" /\ run[e].sent[1].a = 1
    /\ points["alice"] = 1

\* the permission level the registry stores for the resolved (sub)command
RequiredLevel(r) ==
  IF r.subcommand # NoSub
    THEN SubcommandRow(r.command, r.subcommand).permission
    ELSE CommandRow(r.command).permission

\* the dispatch has come to the permission check
AtOrPastPermission(r) ==
  \/ r.pc \in {"afford", "exec", "render"}
  \/ r.pc = "done" /\ r.outcome \in {"permission", "afford", "error", "ok"}

\* C5: a dispatch of a registered, enabled command that is not on cooldown
\* is rejected at the permission check exactly when the sender's groupID is
\* greater than the level required for the resolved (sub)command; the
\* rejected sender gets one notice and no handler is called.
C5_PermissionCheck ==
  \A d \in Slots :
    LET r == run[d] IN
    AtOrPastPermission(r)
    => /\ (r.outcome = "permission") <=> (r.groupID > RequiredLevel(r))
       /\ r.outcome = "permission"
          => /\ r.pc = "done"
             /\ r.sent = <<[via |-> "whisper", to |-> r.sender,
                            text |-> "permission", a |-> 0, b |-> 0]>>
             /\ r.handler = "" /\ r.moduleLoads = 0 /\ r.emitted = <<>>
             /\ r.debited = 0 /\ r.cooldownWrites = 0

C5_Witness ==
  \E d, e \in Slots :
    /\ run[d].outcome = "permission" /\ run[d].subcommand = "add"
    /\ run[e].outcome = "ok" /\ run[e].groupID = RequiredLevel(run[e])

\* the price the store holds for a (sub)command: the subcommand's own
\* price, the command's price when that is -1 or when no subcommand is given
StoredPrice(cmd, subcommand) ==
  IF subcommand = NoSub THEN CommandRow(cmd).price
  ELSE LET p == SubcommandRow(cmd, subcommand).price IN
       IF p = -1 THEN CommandRow(cmd).price ELSE p

\* the dispatch has passed the stage of the affordability check
PastAffordability(r) ==
  \/ r.pc \in {"exec", "render"}
  \/ r.pc = "done" /\ r.outcome \in {"afford", "error", "ok"}

\* C6: the affordability check runs only with the economy enabled.  With it
\* enabled, a sender whose balance is not above the price of the resolved
\* command is rejected: nothing is charged, no handler is called, and the
\* notice carries the balance and the price.  With it disabled nobody is
\* rejected at this stage.  (The price is taken to be either the resolved
\* subcommand's stored price or the command's own.)
C6_AffordabilityCheck ==
  \A d \in Slots :
    LET r == run[d]
        prices == {StoredPrice(r.command, r.subcommand), CommandRow(r.command).price}
    IN PastAffordability(r)
       => /\ ~r.pointsEnabled => r.outcome # "afford"
          /\ (r.pointsEnabled /\ \A p \in prices : ~(r.userPoints > p))
             => /\ r.outcome = "afford"
                /\ r.debited = 0 /\ r.handler = "" /\ r.moduleLoads = 0
                /\ Len(r.sent) = 1
                /\ r.sent[1].text = "afford" /\ r.sent[1].to = r.sender
                /\ r.sent[1].a \in prices
                /\ r.sent[1].b = r.userPoints

\* C7: canAffordCommand answers affordable exactly when the user's points
\* are strictly greater than the price (equal points are not enough), and
\* its second and third results are the balance and the price it compared;
\* for a command without subcommand that price is the command's stored one.
C7_StrictlyGreater ==
  /\ \A u \in Users, c \in CommandRows :
       LET res == canAffordCommand(u, c.name, NoSub) IN
       /\ res[1] <=> (points[u] > c.price)
       /\ res[2] = points[u]
       /\ res[3] = c.price
  /\ \A u \in Users, s \in SubcommandRows :
       LET res == canAffordCommand(u, s.parent, s.name) IN
       /\ res[1] <=> (ToNumber(res[2]) > ToNumber(res[3]))
       /\ res[2] = points[u]
  /\ \A d \in Slots :
       (run[d].pointsEnabled /\ PastAffordability(run[d]))
       => ((run[d].outcome = "afford")
             <=> ~(ToNumber(run[d].userPoints) > ToNumber(run[d].commandPrice)))

C7_Witness ==
  \E d \in Slots :
    /\ run[d].outcome = "afford" /\ run[d].subcommand = NoSub
    /\ run[d].userPoints = 1 /\ run[d].commandPrice = 1
    /\ ~canAffordCommand("alice", "top", NoSub)[1]

\* C8: for a dispatch with a subcommand the price that is used is the price
\* stored for that subcommand, or the command's price when the stored
\* subcommand price is -1.
C8_SubcommandPrice ==
  \A d \in Slots :
    (run[d].pointsEnabled /\ PastAffordability(run[d]) /\ run[d].subcommand # NoSub)
    => run[d].commandPrice = StoredPrice(run[d].command, run[d].subcommand)

\* C9: a dispatch that reaches the commit has debited exactly the price if
\* the economy is enabled and the price is greater than 0, and nothing
\* otherwise.  (The price: the resolved subcommand's stored price, or the
\* command's own.)
C9_DebitIsThePrice ==
  \A d \in Slots :
    LET r == run[d]
        prices == {StoredPrice(r.command, r.subcommand), CommandRow(r.command).price}
    IN (r.pc = "done" /\ r.outcome = "ok")
       => \E p \in prices :
            r.debited = IF r.pointsEnabled /\ p > 0 THEN p ELSE 0

\* C10: with the cooldown flag disabled no dispatch consults isOnCooldown
\* and no cooldown record is ever written.
C10_CooldownsDisabled ==
  ~cooldownsOn
  => /\ cooldowns = <<>>
     /\ \A d \in Slots : run[d].consulted = 0 /\ run[d].cooldownWrites = 0

C10_Witness ==
  /\ ~cooldownsOn
  /\ \E d, e \in Slots :
       /\ d # e /\ SameUse(d, e) /\ run[d].command = "discord"
       /\ run[d].outcome = "ok" /\ run[e].outcome = "ok"
       /\ run[d].committedAt = run[e].committedAt

\* C11: a dispatch emits at most one completion event, named
\* command:<command> or command:<command>:<subcommand> when a subcommand was
\* resolved; the event comes last, after the execution and after the
\* cooldown start and the debit, and every dispatch that runs to its end
\* emits it; a dispatch that returned at an earlier stage has emitted none.
C11_CompletionEvent ==
  \A d \in Slots :
    LET r == run[d] IN
    /\ Len(r.emitted) <= 1
    /\ (r.pc = "done" /\ r.outcome = "ok") <=> (Len(r.emitted) = 1)
    /\ Len(r.emitted) = 1
       => /\ r.emitted[1] = IF r.subcommand = NoSub
                              THEN <<"command", r.command>>
                              ELSE <<"command", r.command, r.subcommand>>
          /\ r.handler \in {"returns", "rejects"} \/ Len(r.sent) = 1
          /\ r.cooldownWrites = IF r.cooldownsEnabled THEN 1 ELSE 0
          /\ r.debited = IF r.pointsEnabled /\ Truthy(r.charge) THEN r.charge ELSE 0
    /\ r.outcome \in Rejections \cup {"error"} => r.emitted = <<>>

C11_Witness ==
  \E d, e \in Slots :
    /\ run[d].emitted = << <<"command", "top", "points">> >>
    /\ run[e].emitted = << <<"command", "points">> >>
    /\ run[e].debited = 2 /\ run[e].cooldownWrites = 1

\* C12: a dispatch of a custom command that passes the policy checks says
\* the rendered response to the sender, and at no point of the dispatch is
\* the extension loader asked for a module or a handler.
C12_CustomCommand ==
  \A d \in Slots :
    LET r == run[d] IN
    (r.pc # "idle" /\ exists(r.command, NoSub) /\ isCustom(r.command))
    => /\ r.moduleLoads = 0 /\ r.handler = ""
       /\ r.outcome # "error"
       /\ (r.pc = "done" /\ r.outcome = "ok")
          => r.sent = <<[via |-> "say", to |-> r.sender, text |-> "response",
                         a |-> 0, b |-> 0]>>

C12_Witness ==
  \E d \in Slots :
    /\ run[d].command = "discord" /\ run[d].outcome = "ok"
    /\ Len(run[d].sent) = 1 /\ run[d].moduleLoads = 0

\* ------------------------------------- dispatches and payouts together
\* the commands that alice sends while the payout job runs
LedgerEvents ==
  { e \in Events : e.sender = "alice" /\ e.args = <<>> /\ e.command = "points" }

\* an earlier payout has recorded alice; the economy is on, cooldowns are
\* off, the stream is live and pays
InitLedger ==
  /\ now = 10 * 60
  /\ points \in InitPoints
  /\ cooldowns = <<>>
  /\ pointsOn = TRUE
  /\ cooldownsOn = FALSE
  /\ run = [d \in Slots |-> Idle]
  /\ lastPayout = 5 * 60
  /\ lastUserList = {"alice", BotName}
  /\ userList = {"alice", "bob", BotName}
  /\ isLive = TRUE
  /\ settings \in {c \in SettingsChoices : c.liveAmt > 0 /\ c.liveInt > 0}
  /\ pay = [k \in PaySlots |-> PayIdle]
  /\ tick = {}
  /\ engine = EngineReady
  /\ listeners = NoListeners
  /\ onCalls = NoCalls
  /\ invoked = NoneInvoked

NextLedger ==
  \/ \E d \in Slots, event \in LedgerEvents : RunCommand(d, event)
  \/ \E d \in Slots : PolicyFetch(d)
  \/ \E d \in Slots : AffordCheck(d)
  \/ \E d \in Slots : ExecuteHandler(d, "returns")
  \/ \E k \in PaySlots : SetupRun(k)
  \/ \E k \in PaySlots : TimerRun(k, 1)
  \/ \E k \in PaySlots : RunDue(k)
  \/ \E k \in PaySlots, user \in Viewers : PayUser(k, user)
  \/ \E k \in PaySlots : RunEnd(k)

SpecLedger == InitLedger /\ [][NextLedger]_vars

\* ------------------------------------------- the engine and its payouts
\* a fresh process: nothing is initialised, the cache is empty
InitLifecycle ==
  /\ now = 10 * 60
  /\ points \in InitPoints
  /\ cooldowns = <<>>
  /\ pointsOn = TRUE
  /\ cooldownsOn = TRUE
  /\ run = [d \in Slots |-> Idle]
  /\ lastPayout = 0
  /\ lastUserList = {}
  /\ userList = {"alice", "bob", BotName}
  /\ isLive \in BOOLEAN
  /\ settings \in SettingsChoices
  /\ pay = [k \in PaySlots |-> PayIdle]
  /\ tick = {}
  /\ engine \in {[EngineOff EXCEPT !.configured = c] : c \in BOOLEAN}
  /\ listeners = NoListeners
  /\ onCalls = NoCalls
  /\ invoked = NoneInvoked

NextLifecycle ==
  \/ Initialize
  \/ InitializeReady
  \/ Disconnect
  \/ \E k \in PaySlots : SetupRun(k)
  \/ \E k \in PaySlots : TimerRun(k, 1)
  \/ \E k \in PaySlots : RunDue(k)
  \/ \E k \in PaySlots, user \in Viewers : PayUser(k, user)
  \/ \E k \in PaySlots : RunEnd(k)

SpecLifecycle == InitLifecycle /\ [][NextLifecycle]_vars

\* ------------------------------------------------- properties of the payout
\* the amount and the interval of the branch that the run took are positive
ActivePositive(r) ==
  IF r.live THEN settings.liveAmt > 0 /\ settings.liveInt > 0
            ELSE settings.offAmt > 0 /\ settings.offInt > 0

\* the run has gone past the test of what is due
Decided(r) == r.pc \notin {"idle", "settings"}

\* the run found a payout due, and Promise.map has settled
Ended(r) == r.pc = "failed" \/ (r.pc = "done" /\ r.wrote)

\* the run did not touch a balance or the cache
NoEffect(r) == ~r.wrote /\ \A u \in Users : r.credited[u] = 0

\* the user is present, has an account, is not the bot, and was in the
\* list that the previous payout recorded
Eligible(r, u) ==
  u \in Users /\ u # BotName /\ u \in r.userList /\ u \in r.lastUserList

\* the rank bonus when the rank has one, otherwise the bonus of the group,
\* otherwise nothing
ExpectedBonus(u) ==
  IF DbGetRankBonus(RankOf[u]) # NULL THEN DbGetRankBonus(RankOf[u])
  ELSE IF DbGetGroupBonus(GroupOf[u]) # NULL THEN DbGetGroupBonus(GroupOf[u])
  ELSE 0

\* C13: a run that finds the amount or the interval of the active stream
\* state non-positive changes no balance and leaves lastPayout and
\* lastUserList as they were.
C13_NonPositiveSkips ==
  \A k \in PaySlots :
    (Decided(pay[k]) /\ ~ActivePositive(pay[k])) => NoEffect(pay[k])

\* C14: in a due run a user who was not in lastUserList gets nothing and the
\* bot gets nothing; a user whom the previous payout recorded and who is
\* still present is paid by the due run (no store operation failing).
C14_NewJoinersWaitOneCycle ==
  \A k \in PaySlots :
    LET r == pay[k] IN
    /\ r.credited[BotName] = 0
    /\ \A u \in Users : u \notin r.lastUserList => r.credited[u] = 0
    /\ (Ended(r) /\ ~r.storeFailed)
       => \A u \in Users : Eligible(r, u) => r.credited[u] > 0

\* C15: a due run in which no store operation failed has credited every
\* eligible user exactly payout + bonus, the bonus being the rank bonus, or
\* the group bonus when the rank has none.
C15_PayoutPlusBonus ==
  \A k \in PaySlots :
    LET r == pay[k] IN
    (Ended(r) /\ ~r.storeFailed)
    => \A u \in Users :
         Eligible(r, u) => r.credited[u] = r.payout + ExpectedBonus(u)

\* C16: a run in which the operation for some user failed never writes
\* lastPayout or lastUserList; a later run that reads the same lastPayout
\* therefore finds the payout due again.
C16_FailedRunIsRetried ==
  /\ \A k \in PaySlots : pay[k].rejected => ~pay[k].wrote
  /\ \A k, j \in PaySlots :
       ( /\ pay[k].pc = "failed" /\ Decided(pay[j])
         /\ pay[j].now > pay[k].now
         /\ pay[j].lastPayout = pay[k].lastPayout )
       => ~(pay[j].pc = "done" /\ ~pay[j].wrote)

C16_Witness ==
  \E k, j \in PaySlots :
    /\ pay[k].pc = "failed" /\ pay[k].storeFailed
    /\ lastPayout = pay[k].lastPayout /\ lastUserList = pay[k].lastUserList
    /\ pay[j].now > pay[k].now /\ pay[j].lastPayout = pay[k].lastPayout
    /\ pay[j].pc = "paying" /\ "alice" \in pay[j].todo

\* what the payout runs 1..n have credited to the user
RECURSIVE Credits(_, _)
Credits(user, n) ==
  IF n = 0 THEN 0 ELSE pay[n].credited[user] + Credits(user, n - 1)

\* what the dispatches 1..n have debited from the user
RECURSIVE Debits(_, _)
Debits(user, n) ==
  IF n = 0 THEN 0
  ELSE (IF run[n].sender = user THEN run[n].debited ELSE 0) + Debits(user, n - 1)

\* C17: whatever the interleaving of dispatches and payout runs, a balance
\* is the initial balance plus all that was credited minus all that was
\* debited.
C17_NoLostUpdate ==
  \A u \in Users :
    \A initial \in InitPoints :
      points[u] = initial[u] + Credits(u, MaxRuns) - Debits(u, MaxDispatches)

\* a credit lands between the affordability read and the debit of a dispatch
C17_Witness ==
  \E d \in Slots, k \in PaySlots :
    /\ run[d].sender = "alice" /\ run[d].debited > 0
    /\ pay[k].credited["alice"] > 0
    /\ ToNumber(run[d].userPoints) - run[d].debited # points["alice"]
    /\ \A e \in Slots : e # d => run[e].debited = 0

\* C18: for a channel and a function that have only been passed to on with
\* the default single = true, at least once, exactly one copy of the function
\* is in the channel's list, whatever was registered elsewhere, and an emit
\* on the channel calls it once.  In general the list holds one copy for each
\* call with single = false, and one more if the first call was single.
C18_SingleListener ==
  \A c \in Channels, fn \in Fns :
    LET calls == onCalls[c][fn]
        copies == Copies(listeners[c], fn)
    IN /\ (calls # <<>> /\ \A i \in DOMAIN calls : calls[i]) => copies = 1
       /\ calls = <<>> => copies = 0
       /\ copies = Cardinality({i \in DOMAIN calls : ~calls[i]})
                   + (IF calls # <<>> /\ calls[1] THEN 1 ELSE 0)
       /\ invoked[c][fn] <= copies
       /\ (\E fn2 \in Fns : invoked[c][fn2] > 0) => invoked[c][fn] = copies

C18_Witness ==
  /\ onCalls["ready"]["f"] = <<TRUE, TRUE>>
  /\ onCalls["ready"]["g"] = <<TRUE>>
  /\ listeners["ready"] = <<"f", "g">>
  /\ invoked["ready"]["f"] = 1

\* C19: initialize() on an engine that is initialised or initialising, and
\* disconnect() on an engine that is off, do nothing: there is never more
\* than one connection, one runtime context, one registration and one
\* ready/loaded event that a disconnect has not ended, and no disconnect,
\* unregister or unloaded event without a connection to end.
C19_LifecycleIdempotent ==
  /\ engine.connects - engine.disconnects \in {0, 1}
  /\ engine.cores - engine.disconnects \in {0, 1}
  /\ engine.unregisters = engine.disconnects
  /\ engine.unloaded = engine.disconnects
  /\ engine.registrations <= engine.unregisters + 1
  /\ engine.ready <= engine.unloaded + 1
  /\ engine.loaded <= engine.unloaded + 1

\* C20: once disconnect() has run the 'pointPayouts' interval is not set,
\* and a run that the interval starts while the engine is off changes no
\* balance and does not write lastPayout or lastUserList.
C20_ShutdownStopsPayouts ==
  /\ engine.state = "off" => tick = {}
  /\ \A k \in PaySlots :
       (pay[k].by = "timer" /\ pay[k].engineState = "off") => NoEffect(pay[k])

\* the interval, in seconds, of the branch that the run took
ActiveInterval(r) ==
  (IF r.live THEN settings.liveInt ELSE settings.offInt) * 60

\* by the run's own reading the payout is due
DueAtCall(r) == r.now > r.lastPayout + ActiveInterval(r)

\* the run has credited somebody
Credited(r) == \E u \in Users : r.credited[u] > 0

\* C21: a run changes a balance, lastPayout or lastUserList only if its now
\* is later than the lastPayout it read plus the interval of the active
\* stream state; two runs that both credited users and recorded their
\* lastPayout lie more than that interval apart.
C21_PaysOnlyWhenDue ==
  /\ \A k \in PaySlots :
       (Decided(pay[k]) /\ ~DueAtCall(pay[k])) => NoEffect(pay[k])
  /\ \A k, j \in PaySlots :
       ( /\ k # j /\ pay[k].wrote /\ pay[j].wrote
         /\ Credited(pay[k]) /\ Credited(pay[j])
         /\ pay[k].live = pay[j].live /\ pay[k].now <= pay[j].now )
       => pay[j].now - pay[k].now > ActiveInterval(pay[j])

\* the run is suspended on its settings or on its per-user store operations
InProgress(r) == r.pc \in {"settings", "paying"}

\* C22: never are two payout runs in progress at once, and no user is
\* credited by two runs that read the same lastPayout and both went through
\* (a retry after a failed run is not counted).
C22_OneRunAtATime ==
  /\ \A k, j \in PaySlots :
       (InProgress(pay[k]) /\ InProgress(pay[j])) => k = j
  /\ \A k, j \in PaySlots, u \in Users :
       ( /\ k # j /\ ~pay[k].rejected /\ ~pay[j].rejected
         /\ pay[k].lastPayout = pay[j].lastPayout
         /\ pay[k].credited[u] > 0 )
       => pay[j].credited[u] = 0

\* C23: with cooldowns enabled, two dispatches of the same (command,
\* subcommand) by the same user that both executed and committed lie at
\* least cooldownSeconds apart, however they overlapped.
C23_CooldownUnderOverlap ==
  \A d, e \in Slots :
    ( /\ d # e /\ SameUse(d, e)
      /\ run[d].outcome = "ok" /\ run[e].outcome = "ok"
      /\ run[d].cooldownsEnabled /\ run[e].cooldownsEnabled
      /\ run[d].committedAt <= run[e].committedAt )
    => run[e].committedAt - run[d].committedAt
         >= getCooldown(run[d].command, run[d].subcommand)

\* C26: the balances start non-negative; as long as no dispatch has charged
\* a negative price, the debits of the dispatcher leave every balance at
\* or above zero.
C26_BalanceNeverNegative ==
  (\A d \in Slots : run[d].debited >= 0 /\ ToNumber(run[d].commandPrice) >= 0)
  => \A u \in Users : points[u] >= 0

\* the first argument of the event, lower-cased, names a subcommand that the
\* registry holds for the command
KnownSubcommand(r) ==
  /\ r.args # <<>>
  /\ \E row \in SubcommandRows :
       row.name = ToLowerCase(r.args[1]) /\ row.parent = r.command

\* the policy reads of lines 95-107 have resolved and the command exists
PolicyRead(r) ==
  r.pc \notin {"idle", "policy"} /\ r.outcome # "unknown"

\* C24: if the first argument, lower-cased, is a known subcommand of the
\* command, the dispatch resolves it, the event gains it as subcommand and
\* the arguments after the first as subArgs, and the enablement and the
\* permission level read are those of the subcommand; otherwise there is no
\* subcommand, the event gains nothing, and the command's own enablement and
\* level are read.  The arguments of the event are never changed.
C24_SubcommandResolution ==
  \A d \in Slots :
    LET r == run[d] IN
    r.pc # "idle" =>
      /\ \E event \in Events : event.args = r.args /\ event.command = r.command
      /\ IF KnownSubcommand(r)
           THEN /\ r.subcommand = ToLowerCase(r.args[1])
                /\ r.assigned /\ r.eventSubcommand = r.subcommand
                /\ Len(r.subArgs) = Len(r.args) - 1
                /\ \A i \in 1..Len(r.subArgs) : r.subArgs[i] = r.args[i + 1]
                /\ PolicyRead(r) =>
                     /\ r.commandPermission
                          = SubcommandRow(r.command, r.subcommand).permission
                     /\ (r.outcome = "disabled")
                          <=> ~SubcommandRow(r.command, r.subcommand).status
           ELSE /\ r.subcommand = NoSub
                /\ ~r.assigned /\ r.eventSubcommand = NoSub /\ r.subArgs = <<>>
                /\ PolicyRead(r) =>
                     /\ r.commandPermission = CommandRow(r.command).permission
                     /\ (r.outcome = "disabled") <=> ~CommandRow(r.command).status

C24_Witness ==
  \E d, e \in Slots :
    /\ run[d].command = "points" /\ run[d].args = <<"Add", "bob">>
    /\ run[d].subcommand = "add" /\ run[d].subArgs = <<"bob">>
    /\ run[d].commandPermission = 0 /\ run[d].outcome = "permission"
    /\ run[e].command = "points" /\ run[e].args = <<"bob", "Add">>
    /\ run[e].subcommand = NoSub /\ ~run[e].assigned
    /\ run[e].commandPermission = 1 /\ run[e].outcome = "ok"

\* the stages in the order of the claim
StageOrder ==
  <<"existence", "enablement", "cooldown", "permission", "affordability",
    "execution">>

\* the stage at which a dispatch with this outcome stopped
FailedStage(outcome) ==
  CASE outcome = "unknown" -> "existence"
    [] outcome = "disabled" -> "enablement"
    [] outcome = "cooldown" -> "cooldown"
    [] outcome = "permission" -> "permission"
    [] outcome = "afford" -> "affordability"
    [] OTHER -> "execution"

\* the stages that a dispatch with these flags goes through, in order, up to
\* and with the last one
StagesUpTo(r, last) ==
  LET applies(i) == /\ StageOrder[i] = "cooldown" => r.cooldownsEnabled
                    /\ StageOrder[i] = "affordability" => r.pointsEnabled
      upTo == CHOOSE n \in 1..Len(StageOrder) : StageOrder[n] = last
      F[i \in 0..Len(StageOrder)] ==
        IF i = 0 THEN <<>>
        ELSE IF i <= upTo /\ applies(i) THEN Append(F[i - 1], StageOrder[i])
        ELSE F[i - 1]
  IN F[Len(StageOrder)]

\* C25: the checks of a dispatch are evaluated in the order existence,
\* enablement, cooldown, permission, affordability, execution (cooldown and
\* affordability only when enabled) and none is evaluated after one that
\* failed; a finished dispatch has evaluated exactly the stages up to the
\* one it stopped at, a dispatch that fails several checks stops at the
\* earliest, and the sender has at most one rejection notice.
C25_StagesInOrder ==
  \A d \in Slots :
    LET r == run[d] IN
    /\ r.pc = "done" => r.checks = StagesUpTo(r, FailedStage(r.outcome))
    /\ (r.pc # "done" /\ r.checks # <<>>)
       => r.checks = StagesUpTo(r, r.checks[Len(r.checks)])
    /\ r.outcome \in Rejections =>
         /\ Len(r.sent) <= 1
         /\ r.handler = "" /\ r.debited = 0 /\ r.emitted = <<>>
    /\ r.outcome \in {"unknown", "disabled"} => r.consulted = 0
    /\ (r.pc = "done" /\ ~exists(r.command, NoSub)) => r.outcome = "unknown"
    /\ (r.pc = "done" /\ exists(r.command, NoSub)
        /\ ~isEnabled(r.command, r.subcommand)) => r.outcome = "disabled"
    /\ r.outcome \in {"afford", "error", "ok"} => r.groupID <= r.commandPermission

\* raffle is disabled and alice may not use it either: only the enablement
\* is reported (silently); bob is told of the permission he lacks after the
\* cooldown was looked at, and nothing is looked at after that
C25_Witness ==
  \E d, e \in Slots :
    /\ run[d].command = "raffle" /\ run[d].groupID > run[d].commandPermission
    /\ run[d].outcome = "disabled" /\ run[d].sent = <<>>
    /\ run[d].checks = <<"existence", "enablement">>
    /\ run[e].sender = "bob" /\ run[e].pointsEnabled
    /\ run[e].outcome = "permission" /\ Len(run[e].sent) = 1
    /\ run[e].checks = <<"existence", "enablement", "cooldown", "permission">>

====
